---- MODULE Spec2Model ----
(***************************************************************************)
(* Model of the chat path of the Health Insights Agent:                    *)
(*   services/ai_service.py  init_analysis_state, get_chat_response        *)
(*   agent/chat_agent.py     ChatAgent                                     *)
(* Python str values are TLA+ strings (TLC evaluates Len, SubSeq and \o on *)
(* them); st.session_state is a function whose DOMAIN is the set of keys   *)
(* present.  Calls that leave the process (the two constructors, FAISS,    *)
(* the retriever, the Groq completions endpoint) are outcomes chosen by    *)
(* the environment, passed to the operators in a record env.               *)
(***************************************************************************)
EXTENDS Naturals, Integers, Sequences, FiniteSets, TLC

VARIABLES
    session_state,  \* st.session_state: key |-> value, for the keys present
    last_init,      \* how the last init_analysis_state call ended
    last_chat,      \* observation of the last get_chat_response call
    calls,          \* number of get_chat_response calls made
    reuses,         \* how many calls in a row, the last one included, were answered
                    \* from the cached index without a build
    args,           \* arguments of the context-recovery function under SpecRecover
    ret             \* its result

vars == <<session_state, last_init, last_chat, calls, reuses, args, ret>>

---------------------------------------------------------------------------
(* Python helpers *)

\* the characters str.strip() removes that a string here can hold: space, \t,
\* \n, \r, \f, and, written as the characters themselves, VT (0x0b), FS, GS, RS
\* and US (0x1c .. 0x1f), NEL (0x85) and the no-break space (0xa0).
Whitespace ==
    {" ", "\t", "\n", "\r", "\f", "", "", "", "", "",
     "", " "}

\* str.lstrip(): s without its k leading whitespace characters
LStrip(s) ==
    SubSeq(s,
           1 + (CHOOSE k \in 0 .. Len(s) :
                    /\ k = Len(s) \/ SubSeq(s, k + 1, k + 1) \notin Whitespace
                    /\ \A j \in 1 .. k : SubSeq(s, j, j) \in Whitespace),
           Len(s))

\* str.rstrip(): s without its k trailing whitespace characters
RStrip(s) ==
    SubSeq(s, 1,
           Len(s) - (CHOOSE k \in 0 .. Len(s) :
                         /\ k = Len(s) \/ SubSeq(s, Len(s) - k, Len(s) - k) \notin Whitespace
                         /\ \A j \in 1 .. k :
                                SubSeq(s, Len(s) - j + 1, Len(s) - j + 1) \in Whitespace))

\* str.strip()
Strip(s) == RStrip(LStrip(s))

\* str.find(sub): the 0-based index of the first occurrence, -1 when there is none
Find(s, sub) ==
    IF \E i \in 0 .. (Len(s) - Len(sub)) : SubSeq(s, i + 1, i + Len(sub)) = sub
    THEN CHOOSE i \in 0 .. (Len(s) - Len(sub)) :
             /\ SubSeq(s, i + 1, i + Len(sub)) = sub
             /\ \A j \in 0 .. (i - 1) : SubSeq(s, j + 1, j + Len(sub)) # sub
    ELSE -1

\* sub in s
Contains(s, sub) == Find(s, sub) # -1

\* s[a:b] for 0 <= a, 0 <= b
Slice(s, a, b) == SubSeq(s, a + 1, IF b < Len(s) THEN b ELSE Len(s))

\* sep.join(parts)
RECURSIVE Join(_, _)
Join(parts, sep) ==
    IF parts = <<>> THEN ""
    ELSE IF Len(parts) = 1 THEN parts[1]
    ELSE parts[1] \o sep \o Join(Tail(parts), sep)

\* seq[-n:]
LastN(seq, n) ==
    IF Len(seq) <= n THEN seq ELSE SubSeq(seq, Len(seq) - n + 1, Len(seq))

\* Python None, and a value that is not None, where a slot holds either
PyNone == <<>>
Some(v) == <<v>>

---------------------------------------------------------------------------
(* agent/chat_agent.py: ChatAgent *)

chunk_size == 1000
chunk_overlap == 200
model_name == "llama-3.3-70b-versatile"
search_k == 3
contextualize_window == 4
history_window == 6

PLACEHOLDER == "No report context available."

\* RecursiveCharacterTextSplitter(chunk_size, chunk_overlap), with the defaults
\* the constructor call leaves: separators "\n\n", "\n", " ", "", the separator
\* kept at the start of the piece that follows it, chunks stripped.  Pieces are
\* joined with "", so every piece and every chunk is a stretch text[s:d] of the
\* text, and the splitter is computed on 0-based positions of the text.
separators == <<"\n\n", "\n", " ", "">>

Max(x, y) == IF x >= y THEN x ELSE y
Min(x, y) == IF x <= y THEN x ELSE y

\* sep occurs at position i of text[:b]
OccursAt(text, sep, b, i) ==
    i + Len(sep) <= b /\ SubSeq(text, i + 1, i + Len(sep)) = sep

\* re.split finds a match of sep at position i of the piece text[a:b]: matches
\* are taken from the left and do not overlap.  A separator of one character
\* matches wherever it occurs; "\n\n" matches at every second position of a run
\* of positions where it occurs, counted from the run's first position r.
MatchAt(text, sep, a, b, i) ==
    /\ OccursAt(text, sep, b, i)
    /\ \/ Len(sep) = 1
       \/ \E r \in a .. i :
              /\ r = a \/ ~OccursAt(text, sep, b, r - 1)
              /\ \A j \in r .. i : OccursAt(text, sep, b, j)
              /\ (i - r) % 2 = 0

\* _split_text_with_regex: the pieces of pc.text[pc.a:pc.b] begin at pc.a and
\* at every match of pc.sep (at every character when pc.sep is ""); empty pieces
\* are dropped.  i is a position where a piece begins or the last one ends.
IsCut(pc, i) ==
    \/ i = pc.a
    \/ i = pc.b
    \/ pc.sep = ""
    \/ MatchAt(pc.text, pc.sep, pc.a, pc.b, i)

\* the first cut in lo .. hi, which holds one
FirstCutFrom(pc, lo, hi) ==
    CHOOSE x \in lo .. hi : IsCut(pc, x) /\ \A y \in lo .. (x - 1) : ~IsCut(pc, y)

\* the last cut in lo .. hi, which holds one
LastCutUpTo(pc, lo, hi) ==
    CHOOSE x \in lo .. hi : IsCut(pc, x) /\ \A y \in (x + 1) .. hi : ~IsCut(pc, y)

\* the end of the piece that begins at cut p < pc.b
NextCut(pc, p) == FirstCutFrom(pc, p + 1, pc.b)

\* TextSplitter._join_docs of the pieces that make up text[s:d]
join_docs(text, s, d) ==
    IF Strip(Slice(text, s, d)) = "" THEN <<>> ELSE <<Strip(Slice(text, s, d))>>

\* TextSplitter._merge_splits over the pieces of text[.. : e], from the point
\* where current_doc is text[s:q] and the piece beginning at q is next.  x is
\* the end and d the beginning of the first piece that no longer fits; the new
\* beginning of current_doc is where the popping loop stops.
RECURSIVE merge_from(_, _, _, _)
merge_from(pc, e, s, q) ==
    IF Max(q, s + chunk_size) + 1 > e
    THEN join_docs(pc.text, s, e)
    ELSE LET x == FirstCutFrom(pc, Max(q, s + chunk_size) + 1, e)
             d == LastCutUpTo(pc, q, x - 1)
         IN  IF d > s
             THEN join_docs(pc.text, s, d)
                  \o merge_from(pc, e,
                                FirstCutFrom(pc,
                                             Max(Max(s, d - chunk_overlap),
                                                 Min(d, x - chunk_size)),
                                             d),
                                x)
             ELSE merge_from(pc, e, s, x)

\* the piece beginning at cut p is not shorter than chunk_size
TooLong(pc, p) ==
    /\ p + chunk_size <= pc.b
    /\ \A i \in (p + 1) .. (p + chunk_size - 1) : ~IsCut(pc, i)

\* the separator _split_text chooses for text[a:b] among separators[from ..]
separator_index(text, from, a, b) ==
    CHOOSE l \in from .. Len(separators) :
        /\ \/ separators[l] = ""
           \/ \E i \in a .. b : OccursAt(text, separators[l], b, i)
        /\ \A k \in from .. (l - 1) :
               /\ separators[k] # ""
               /\ \A i \in a .. b : ~OccursAt(text, separators[k], b, i)

\* RecursiveCharacterTextSplitter._split_text(text[a:b], separators[from ..]), and
\* its loop over the pieces from cut p on with _good_splits empty: the pieces up
\* to the first too long one are merged, that one is split with the separators
\* that remain (or kept whole when none remains), and the loop goes on after it.
RECURSIVE split_piece(_, _, _, _)
RECURSIVE split_from(_, _, _)
split_from(pc, level, p) ==
    IF p = pc.b THEN <<>>
    ELSE LET e == CHOOSE c \in p .. pc.b :
                      /\ IsCut(pc, c)
                      /\ (c = pc.b \/ TooLong(pc, c))
                      /\ \A f \in p .. (c - 1) : IsCut(pc, f) => ~TooLong(pc, f)
         IN  (IF e > p THEN merge_from(pc, e, p, p) ELSE <<>>)
             \o (IF e = pc.b THEN <<>>
                 ELSE (IF level = Len(separators)
                       THEN <<Slice(pc.text, e, NextCut(pc, e))>>
                       ELSE split_piece(pc.text, level + 1, e, NextCut(pc, e)))
                      \o split_from(pc, level, NextCut(pc, e)))

split_piece(text, from, a, b) ==
    split_from([text |-> text, sep |-> separators[separator_index(text, from, a, b)],
                a |-> a, b |-> b],
               separator_index(text, from, a, b), a)

\* RecursiveCharacterTextSplitter.split_text
split_text(text) == split_piece(text, 1, 0, Len(text))

\* ChatAgent.initialize_vector_store when FAISS.from_texts succeeds: the index holds
\* the chunks; text_content records the text they were cut from.
initialize_vector_store(text_content) ==
    LET content == IF text_content = "" \/ Strip(text_content) = ""
                   THEN PLACEHOLDER ELSE text_content
        split == split_text(content)
        texts == IF split = <<>> THEN <<content>> ELSE split
    IN  [texts |-> texts, text_content |-> content]

\* ChatAgent._format_chat_history
format_chat_history(chat_history) ==
    [i \in 1 .. Len(chat_history) |->
        [role |-> chat_history[i].role, content |-> chat_history[i].content]]

\* the reformulation prompt of _contextualize_query
contextualize_prompt(query, chat_history) ==
    LET recent_history == LastN(chat_history, contextualize_window)
        lines == [i \in 1 .. Len(recent_history) |->
                    (IF recent_history[i].role = "user" THEN "User" ELSE "Assistant")
                    \o ": " \o recent_history[i].content]
        history_text == Join(lines, "\n")
    IN  "Given a chat history and the latest user question, formulate a standalone question which can be understood without the chat history. Do NOT answer the question, just reformulate it if needed and otherwise return it as is.\n\nChat History:\n"
        \o history_text \o "\n\nLatest User Question: " \o query
        \o "\n\nStandalone Question:"

\* contextualize_query without the early return on an empty history
contextualize_query_always(query, chat_history, env) ==
    [ret |-> IF env.reform.ok THEN Strip(env.reform.content) ELSE query,
     calls |->
         <<[model |-> model_name,
            messages |->
                <<[role |-> "system",
                   content |-> "You reformulate questions to be standalone."],
                  [role |-> "user",
                   content |-> contextualize_prompt(query, chat_history)]>>,
            max_tokens |-> 200,
            ok |-> env.reform.ok]>>]

\* ChatAgent._contextualize_query.  env.reform is the outcome of the completions
\* call: [ok |-> TRUE, content |-> text] or [ok |-> FALSE].
\* ret is the value returned, calls the requests sent to the endpoint, each with
\* whether it succeeded.
contextualize_query(query, chat_history, env) ==
    IF chat_history = <<>>
    THEN [ret |-> query, calls |-> <<>>]
    ELSE [ret |-> IF env.reform.ok THEN Strip(env.reform.content) ELSE query,
          calls |->
              <<[model |-> model_name,
                 messages |->
                     <<[role |-> "system",
                        content |-> "You reformulate questions to be standalone."],
                       [role |-> "user",
                        content |-> contextualize_prompt(query, chat_history)]>>,
                 max_tokens |-> 200,
                 ok |-> env.reform.ok]>>]

qa_system_prompt ==
    "You are an assistant for question-answering tasks. "
    \o "Use the following pieces of retrieved context to answer the question. "
    \o "If you don't know the answer, just say that you don't know. "
    \o "Use three sentences maximum and keep the answer concise."

\* user_message without the test for an empty or placeholder context
user_message_unchecked(context, query) ==
    "Context:\n" \o context \o "\n\nQuestion: " \o query

\* the user message of get_response, from the context kept after retrieval
user_message(context, query) ==
    IF context # "" /\ Strip(context) # "" /\ Strip(context) # PLACEHOLDER
    THEN "Context:\n" \o context \o "\n\nQuestion: " \o query
    ELSE "Question: " \o query
         \o "\n\nNote: No report context is available. Please answer based on the chat history."

\* step 2 of get_response.  env.retrieve is the outcome of the retriever:
\* [ok |-> TRUE, order |-> the indices of the chunks returned, nearest first] or
\* [ok |-> FALSE].  docs are the page contents returned, context what is kept.
retrieve(vectorstore, env) ==
    IF env.retrieve.ok
    THEN LET docs == [i \in 1 .. Len(env.retrieve.order) |->
                         vectorstore.texts[env.retrieve.order[i]]]
             context == Join(docs, "\n\n")
         IN  [ok |-> TRUE, docs |-> docs,
              context |-> IF Strip(context) = PLACEHOLDER THEN "" ELSE context]
    ELSE [ok |-> FALSE, docs |-> <<>>, context |-> ""]

\* complete that tries the call again when it fails
complete_retrying(messages, env) ==
    [ret |-> IF env.completion.ok
             THEN env.completion.content
             ELSE "Error generating response: " \o env.completion.error,
     calls |-> IF env.completion.ok
               THEN <<[model |-> model_name, messages |-> messages, max_tokens |-> 500,
                       ok |-> TRUE]>>
               ELSE <<[model |-> model_name, messages |-> messages, max_tokens |-> 500,
                       ok |-> FALSE],
                      [model |-> model_name, messages |-> messages, max_tokens |-> 500,
                       ok |-> FALSE]>>]

\* step 4 of get_response.  env.completion is the outcome of the completions call:
\* [ok |-> TRUE, content |-> text] or [ok |-> FALSE, error |-> str(e)].
\* ret is the value returned, calls the requests sent, each with whether it succeeded.
complete(messages, env) ==
    [ret |-> IF env.completion.ok
             THEN env.completion.content
             ELSE "Error generating response: " \o env.completion.error,
     calls |-> <<[model |-> model_name, messages |-> messages, max_tokens |-> 500,
                  ok |-> env.completion.ok]>>]

\* step 3 of get_response: the messages of the completion request
build_messages(query, chat_history, context) ==
    <<[role |-> "system", content |-> qa_system_prompt]>>
    \o (IF chat_history # <<>>
        THEN format_chat_history(LastN(chat_history, history_window))
        ELSE <<>>)
    \o <<[role |-> "user", content |-> user_message(context, query)]>>

\* get_response, from the results of its steps 1 and 2
respond_with(query, chat_history, cq, retrieval, env) ==
    [ret |-> complete(build_messages(query, chat_history, retrieval.context), env).ret,
     contextualized_query |-> cq.ret,
     reformulations |-> cq.calls,
     retrieval |-> retrieval,
     user_message |-> user_message(retrieval.context, query),
     completions |->
         complete(build_messages(query, chat_history, retrieval.context), env).calls]

\* ChatAgent.get_response
get_response(query, vectorstore, chat_history, env) ==
    respond_with(query, chat_history,
                 contextualize_query(query, chat_history, env),
                 retrieve(vectorstore, env), env)

---------------------------------------------------------------------------
(* services/ai_service.py *)

\* st.session_state.<key> = value
Set(ss, key, value) == (key :> value) @@ ss

traceback_limit == 500

\* init_analysis_state.  env.analysis is the outcome of AnalysisAgent() ("ok" or
\* "raise"), env.agent that of the guarded block: [kind, msg, tb] with kind "ok",
\* "no_key" (the secret is absent), "KeyError", "ImportError" or "Exception", msg
\* str(e) and tb traceback.format_exc().  inits lists the slots whose
\* initialisation was attempted.
init_analysis_state(ss, env) ==
    LET analysis_missing == "analysis_agent" \notin DOMAIN ss
        s1 == IF analysis_missing THEN Set(ss, "analysis_agent", "AnalysisAgent") ELSE ss
        failed(error) == Set(Set(s1, "chat_agent", "None"), "chat_agent_error", Some(error))
        s2 == CASE env.agent.kind = "no_key" ->
                     failed("GROQ_API_KEY not found in secrets. Please add it to .streamlit/secrets.toml")
                 [] env.agent.kind = "ok" ->
                     Set(Set(s1, "chat_agent", "ChatAgent"), "chat_agent_error", PyNone)
                 [] env.agent.kind = "KeyError" ->
                     failed("Missing configuration: " \o env.agent.msg
                            \o ". Please check your .streamlit/secrets.toml file.")
                 [] env.agent.kind = "ImportError" ->
                     failed("Missing dependencies: " \o env.agent.msg
                            \o ". Please install required packages.")
                 [] OTHER ->
                     failed("Failed to initialize chat agent: " \o env.agent.msg
                            \o "\n\nDetails: " \o Slice(env.agent.tb, 0, traceback_limit))
    IN  IF analysis_missing /\ env.analysis = "raise"
        THEN [raised |-> TRUE, ss |-> ss, inits |-> <<"analysis_agent">>]
        ELSE IF "chat_agent" \in DOMAIN s1
        THEN [raised |-> FALSE, ss |-> s1,
              inits |-> IF analysis_missing THEN <<"analysis_agent">> ELSE <<>>]
        ELSE [raised |-> FALSE, ss |-> s2,
              inits |-> (IF analysis_missing THEN <<"analysis_agent">> ELSE <<>>)
                        \o <<"chat_agent">>]

REPORT_TAG == "__REPORT_TEXT__"
REPORT_START == "__REPORT_TEXT__\n"
REPORT_END == "\n__END_REPORT_TEXT__"
DUMMY_CONTEXT == "No report context available. Relying on chat history only."
long_message == 100
context_limit == 5000

\* the report text one message yields in the first loop of get_chat_response, ""
\* when the message is passed over
report_text_of(msg) ==
    IF msg.role = "system" /\ Contains(msg.content, REPORT_TAG)
    THEN LET content == msg.content
             start_idx == Find(content, REPORT_START) + Len(REPORT_START)
             end_idx == Find(content, REPORT_END)
         IN  IF start_idx > Len(REPORT_START) - 1 /\ end_idx > start_idx
             THEN Slice(content, start_idx, end_idx)
             ELSE ""
    ELSE ""

\* first loop: the text of the first message that yields one
stored_report_text(chat_history) ==
    LET found == {i \in 1 .. Len(chat_history) : report_text_of(chat_history[i]) # ""}
    IN  IF found = {} THEN ""
        ELSE report_text_of(chat_history[CHOOSE i \in found : \A j \in found : i <= j])

\* analysis_text that scans the history forwards
analysis_text_oldest(chat_history) ==
    LET found == {i \in 1 .. Len(chat_history) :
                     /\ chat_history[i].role = "assistant"
                     /\ Len(chat_history[i].content) > long_message}
    IN  IF found = {} THEN ""
        ELSE Slice(chat_history[CHOOSE i \in found : \A j \in found : i <= j].content,
                   0, context_limit)

\* second loop: what the most recent long assistant message yields
analysis_text(chat_history) ==
    LET found == {i \in 1 .. Len(chat_history) :
                     /\ chat_history[i].role = "assistant"
                     /\ Len(chat_history[i].content) > long_message}
    IN  IF found = {} THEN ""
        ELSE Slice(chat_history[CHOOSE i \in found : \A j \in found : i >= j].content,
                   0, context_limit)

\* lines 74-96 of get_chat_response: the context text after recovery from history
recover_context(context_text, chat_history) ==
    IF context_text = "" /\ chat_history # <<>>
    THEN LET stored == stored_report_text(chat_history)
         IN  IF stored # "" THEN stored ELSE analysis_text(chat_history)
    ELSE context_text

\* lines 74-106: the text the index is keyed on and built from
effective_context(context_text, chat_history) ==
    LET recovered == recover_context(context_text, chat_history)
    IN  IF recovered = "" THEN DUMMY_CONTEXT ELSE recovered

\* needs_rebuild keyed on the text instead of its length
needs_rebuild_by_content(ss, context_text) ==
    \/ "vector_store" \notin DOMAIN ss
    \/ ss.vector_store.text_content # context_text

\* the condition of line 108
needs_rebuild(ss, context_text) ==
    \/ "vector_store" \notin DOMAIN ss
    \/ "vector_store_key" \notin DOMAIN ss
    \/ ss.vector_store_key # Len(context_text)

NoStore == [texts |-> <<>>, text_content |-> ""]
NoResponse ==
    [ret |-> "", contextualized_query |-> "", reformulations |-> <<>>,
     retrieval |-> [ok |-> FALSE, docs |-> <<>>, context |-> ""],
     user_message |-> "", completions |-> <<>>]

\* What one get_chat_response call did:
\*   outcome     "return" or "raise"         result     the string returned
\*   inits       slots initialised           scanned    history read for context
\*   effective   the text of line 108        builds     initialize_vector_store calls
\*   responded   get_response was called     vectorstore, resp   its index and record
NoCall ==
    [called |-> FALSE, query |-> "", context_text |-> "", chat_history |-> <<>>,
     inits |-> <<>>, outcome |-> "return", result |-> "", scanned |-> FALSE,
     effective |-> "", builds |-> <<>>, responded |-> FALSE,
     vectorstore |-> NoStore, resp |-> NoResponse]

\* unavailable that answers the canned default instead of the stored error
unavailable_default(s) ==
    "Error: Chat functionality is currently unavailable. Please check your GROQ_API_KEY configuration in .streamlit/secrets.toml"

\* lines 67-72: the string returned when the chat agent is None
unavailable(s) ==
    "Error: " \o
    (IF "chat_agent_error" \in DOMAIN s
     THEN IF s.chat_agent_error = PyNone THEN "None" ELSE s.chat_agent_error[1]
     ELSE "Chat functionality is currently unavailable. Please check your GROQ_API_KEY configuration in .streamlit/secrets.toml")

\* s * n
RECURSIVE Repeat(_, _)
Repeat(s, n) ==
    IF n = 0 THEN ""
    ELSE Repeat(s, n \div 2) \o Repeat(s, n \div 2) \o (IF n % 2 = 1 THEN s ELSE "")

\* the context texts passed to get_chat_response in the sessions explored
ReportA == "BP 140/90"
ReportB == "BP 118/76"
\* longer than chunk_size: the splitter cuts it at spaces into two chunks
ReportLong == Repeat("BP 140/90; ", 95)
Contexts == {"", ReportA, ReportB, ReportLong}

\* initialize_vector_store applied to the texts those sessions can index, each
\* evaluated once, and to any other text
indexed_texts == Contexts \cup {DUMMY_CONTEXT, PLACEHOLDER}
known_indexes == [t \in indexed_texts |-> initialize_vector_store(t)]
build_index(text) ==
    IF text \in indexed_texts THEN known_indexes[text] ELSE initialize_vector_store(text)

\* lines 108-131: the initialize_vector_store calls made for text in session state
\* s.  env.build1 and env.build2 are their outcomes: [ok |-> TRUE] or
\* [ok |-> FALSE, error |-> str(e)].
builds_of(s, text, env) ==
    IF ~needs_rebuild(s, text) THEN <<>>
    ELSE IF env.build1.ok THEN <<[text |-> text, ok |-> TRUE]>>
    ELSE <<[text |-> text, ok |-> FALSE], [text |-> PLACEHOLDER, ok |-> env.build2.ok]>>

\* cache_index that drops the stale index before rebuilding
cache_index_dropping(s, text, env) ==
    IF ~needs_rebuild(s, text) THEN s
    ELSE IF env.build1.ok
    THEN Set(Set(s, "vector_store", build_index(text)),
             "vector_store_key", Len(text))
    ELSE IF env.build2.ok
    THEN Set(Set(s, "vector_store", build_index(PLACEHOLDER)),
             "vector_store_key", 0)
    ELSE [k \in DOMAIN s \ {"vector_store", "vector_store_key"} |-> s[k]]

\* lines 108-131: the session state they leave
cache_index(s, text, env) ==
    IF ~needs_rebuild(s, text) THEN s
    ELSE IF env.build1.ok
    THEN Set(Set(s, "vector_store", build_index(text)),
             "vector_store_key", Len(text))
    ELSE IF env.build2.ok
    THEN Set(Set(s, "vector_store", build_index(PLACEHOLDER)),
             "vector_store_key", 0)
    ELSE s

\* lines 133-135, with the record of the get_response call
answered(obs, s, resp) ==
    [ss |-> s,
     obs |-> [obs EXCEPT !.responded = TRUE, !.vectorstore = s.vector_store,
                         !.resp = resp, !.result = resp.ret]]

\* lines 108-135, for the text of line 108
respond(obs, s, text, env) ==
    IF needs_rebuild(s, text) /\ ~env.build1.ok /\ ~env.build2.ok
    THEN [ss |-> cache_index(s, text, env),
          obs |-> [obs EXCEPT !.effective = text, !.builds = builds_of(s, text, env),
                              !.result = "Error: Could not initialize vector store. "
                                         \o env.build1.error]]
    ELSE answered([obs EXCEPT !.effective = text, !.builds = builds_of(s, text, env)],
                  cache_index(s, text, env),
                  get_response(obs.query, cache_index(s, text, env).vector_store,
                               obs.chat_history, env))

\* lines 66-135, after init_analysis_state
after_init(obs, init, env) ==
    IF init.raised
    THEN [ss |-> init.ss, obs |-> [obs EXCEPT !.inits = init.inits, !.outcome = "raise"]]
    ELSE IF init.ss.chat_agent = "None"
    THEN [ss |-> init.ss,
          obs |-> [obs EXCEPT !.inits = init.inits, !.result = unavailable(init.ss)]]
    ELSE respond([obs EXCEPT !.inits = init.inits,
                             !.scanned = (obs.context_text = "" /\ obs.chat_history # <<>>)],
                 init.ss, effective_context(obs.context_text, obs.chat_history), env)

\* get_chat_response: ss is the session state the call leaves, obs what it did
get_chat_response(ss, query, context_text, chat_history, env) ==
    after_init([NoCall EXCEPT !.called = TRUE, !.query = query,
                              !.context_text = context_text,
                              !.chat_history = chat_history],
               init_analysis_state(ss, env), env)

---------------------------------------------------------------------------
(* inputs and environment outcomes *)

\* a persisted chat message
Msg(id, role, content) == [id |-> id, role |-> role, content |-> content]

Queries == {"What is the blood pressure?", "Is it high?"}

Analysis ==
    "Summary: the blood pressure of 118/76 is within the normal range; "
    \o "the remaining values of the panel are unremarkable as well."

StoredReport == Msg(1, "system", REPORT_START \o ReportB \o REPORT_END)

Histories ==
    { <<>>,
      <<Msg(1, "user", "Hello"), Msg(2, "assistant", "Hi, how can I help?")>>,
      <<StoredReport, Msg(2, "assistant", Analysis), Msg(3, "user", "Thanks")>> }

Traceback ==
    "Traceback (most recent call last):\n"
    \o Repeat("  File \"chat_agent.py\", line 11, in __init__\n", 12)
    \o "OSError: model download failed\n"

AgentOutcomes ==
    { [kind |-> "ok", msg |-> "", tb |-> ""],
      [kind |-> "no_key", msg |-> "", tb |-> ""],
      [kind |-> "KeyError", msg |-> "'GROQ_API_KEY'", tb |-> ""],
      [kind |-> "ImportError", msg |-> "No module named 'groq'", tb |-> ""],
      [kind |-> "Exception", msg |-> "model download failed", tb |-> Traceback] }

NoInitEnv == [analysis |-> "ok", agent |-> [kind |-> "ok", msg |-> "", tb |-> ""]]

\* the outcomes init_analysis_state can meet in session state ss
InitEnvs(ss) ==
    IF "analysis_agent" \notin DOMAIN ss
    THEN {[analysis |-> "raise", agent |-> NoInitEnv.agent]}
         \cup {[analysis |-> "ok", agent |-> g] : g \in AgentOutcomes}
    ELSE IF "chat_agent" \notin DOMAIN ss
    THEN {[analysis |-> "ok", agent |-> g] : g \in AgentOutcomes}
    ELSE {NoInitEnv}

BuildOk == [ok |-> TRUE, error |-> ""]
NoBuildEnv == [build1 |-> BuildOk, build2 |-> BuildOk]
NoResponseEnv ==
    [reform |-> [ok |-> FALSE, content |-> ""],
     retrieve |-> [ok |-> FALSE, order |-> <<>>],
     completion |-> [ok |-> TRUE, content |-> "", error |-> ""]]

\* the outcomes the index builds of a call can meet, init being what
\* init_analysis_state returned
BuildEnvs(init, context_text, chat_history) ==
    IF \/ init.raised
       \/ init.ss.chat_agent = "None"
       \/ ~needs_rebuild(init.ss, effective_context(context_text, chat_history))
    THEN {NoBuildEnv}
    ELSE {NoBuildEnv,
          [build1 |-> [ok |-> FALSE, error |-> "embedding model unavailable"],
           build2 |-> BuildOk],
          [build1 |-> [ok |-> FALSE, error |-> "embedding model unavailable"],
           build2 |-> [ok |-> FALSE, error |-> "out of memory"]]}

\* the orders in which the retriever can return the search_k nearest of n chunks
RetrievalOrders(n) ==
    LET k == IF n < search_k THEN n ELSE search_k
    IN  {o \in [1 .. k -> 1 .. n] : \A i, j \in 1 .. k : i # j => o[i] # o[j]}

ReformOutcomes ==
    { [ok |-> FALSE, content |-> ""],
      [ok |-> TRUE, content |-> " What is the blood pressure in the report?\n"] }

CompletionOutcomes ==
    { [ok |-> TRUE, content |-> "The blood pressure is 140/90.", error |-> ""],
      [ok |-> FALSE, content |-> "", error |-> "Connection error."] }

\* the outcomes get_response can meet when it is handed an index of n chunks
ResponseOutcomes(chat_history, n) ==
    {[reform |-> r, retrieve |-> t, completion |-> c] :
        r \in IF chat_history = <<>> THEN {NoResponseEnv.reform} ELSE ReformOutcomes,
        t \in {[ok |-> FALSE, order |-> <<>>]}
              \cup {[ok |-> TRUE, order |-> o] : o \in RetrievalOrders(n)},
        c \in CompletionOutcomes}

\* the outcomes get_response can meet in a call whose builds meet benv: none when
\* the call returns before it (lines 72 and 131)
ResponseEnvs(init, context_text, chat_history, benv) ==
    IF \/ init.raised
       \/ init.ss.chat_agent = "None"
       \/ /\ needs_rebuild(init.ss, effective_context(context_text, chat_history))
          /\ ~benv.build1.ok
          /\ ~benv.build2.ok
    THEN {NoResponseEnv}
    ELSE ResponseOutcomes(
             chat_history,
             Len(cache_index(init.ss, effective_context(context_text, chat_history),
                             benv).vector_store.texts))

---------------------------------------------------------------------------
(* the session: Spec *)

\* get_chat_response calls explored in one session
MaxCalls == 3

NoArgs == [context_text |-> "", chat_history |-> <<>>]
NoRet == [done |-> FALSE, text |-> "", effective |-> ""]

\* a new session: st.session_state holds none of the keys
Init ==
    /\ session_state = <<>>
    /\ last_init = "none"
    /\ last_chat = NoCall
    /\ calls = 0
    /\ reuses = 0
    /\ args = NoArgs
    /\ ret = NoRet

\* init_analysis_state, as check_rate_limit and generate_analysis call it
InitAnalysisState ==
    \E ienv \in InitEnvs(session_state) :
        /\ session_state' = init_analysis_state(session_state, ienv).ss
        /\ last_init' = IF init_analysis_state(session_state, ienv).raised
                        THEN "raise" ELSE "return"
        /\ UNCHANGED <<last_chat, calls, reuses, args, ret>>

\* one call of get_chat_response
GetChatResponse ==
    /\ calls < MaxCalls
    /\ \E query \in Queries, context_text \in Contexts, chat_history \in Histories :
         \E ienv \in InitEnvs(session_state) :
           \E init \in {init_analysis_state(session_state, ienv)} :
             \E benv \in BuildEnvs(init, context_text, chat_history) :
               \E renv \in ResponseEnvs(init, context_text, chat_history, benv) :
                 \E call \in {get_chat_response(session_state, query, context_text,
                                                chat_history, ienv @@ benv @@ renv)} :
                   /\ session_state' = call.ss
                   /\ last_chat' = call.obs
                   /\ last_init' = IF call.obs.outcome = "raise" THEN "raise" ELSE "return"
                   /\ calls' = calls + 1
                   /\ reuses' = IF call.obs.effective # "" /\ call.obs.builds = <<>>
                                THEN reuses + 1 ELSE 0
                   /\ UNCHANGED <<args, ret>>

Next == InitAnalysisState \/ GetChatResponse

Spec == Init /\ [][Next]_vars

---------------------------------------------------------------------------
(* context recovery alone: SpecRecover *)

\* messages of a recovery history
MaxHistory == 2

LongAnalysis == "Findings: " \o Repeat("x", context_limit) \o " End of analysis."

RecoverMessages ==
    { [role |-> "system", content |-> REPORT_START \o ReportA \o REPORT_END],
      [role |-> "system",
       content |-> "Report stored.\n" \o REPORT_START \o ReportB \o REPORT_END \o "\nv1"],
      [role |-> "system", content |-> REPORT_START \o REPORT_END],
      [role |-> "system", content |-> REPORT_TAG \o ReportA \o REPORT_END],
      [role |-> "system", content |-> REPORT_END \o REPORT_START \o ReportA],
      [role |-> "user", content |-> REPORT_START \o ReportA \o REPORT_END],
      [role |-> "user", content |-> Repeat("Why? ", 30)],
      [role |-> "assistant", content |-> Repeat("y", long_message)],
      [role |-> "assistant", content |-> Analysis],
      [role |-> "assistant", content |-> LongAnalysis] }

\* the histories of at most MaxHistory of these messages, ids in order
RecoverHistories ==
    UNION {{[i \in 1 .. n |-> Msg(i, h[i].role, h[i].content)] :
               h \in [1 .. n -> RecoverMessages]} : n \in 0 .. MaxHistory}

InitRecover ==
    /\ args \in {[context_text |-> c, chat_history |-> h] :
                    c \in {"", ReportA}, h \in RecoverHistories}
    /\ ret = NoRet
    /\ session_state = <<>>
    /\ last_init = "none"
    /\ last_chat = NoCall
    /\ calls = 0
    /\ reuses = 0

\* lines 74-106 of get_chat_response applied to the arguments
Recover ==
    /\ ~ret.done
    /\ ret' = [done |-> TRUE,
               text |-> recover_context(args.context_text, args.chat_history),
               effective |-> effective_context(args.context_text, args.chat_history)]
    /\ UNCHANGED <<args, session_state, last_init, last_chat, calls, reuses>>

NextRecover == Recover

SpecRecover == InitRecover /\ [][NextRecover]_vars

---------------------------------------------------------------------------
(* properties *)

\* s begins with prefix
StartsWith(s, prefix) ==
    Len(s) >= Len(prefix) /\ SubSeq(s, 1, Len(prefix)) = prefix

\* the 0-based positions at which sub occurs in s
Occurrences(s, sub) ==
    {i \in 0 .. (Len(s) - Len(sub)) : SubSeq(s, i + 1, i + Len(sub)) = sub}

Least(S) == CHOOSE i \in S : \A j \in S : i <= j
Greatest(S) == CHOOSE i \in S : \A j \in S : i >= j

\* the step is a get_chat_response call
IsCall == calls' = calls + 1

\* the cached index and its key, as far as the session holds them
CacheOf(ss) == [k \in DOMAIN ss \cap {"vector_store", "vector_store_key"} |-> ss[k]]

\* the call got as far as line 108
ReachedCache(obs) == obs.called /\ obs.effective # ""

\* the call left the index of its own text in the cache: it reused the cached
\* index or built one from its text
LeftOwnIndex(obs) ==
    ReachedCache(obs) /\ (obs.builds = <<>> \/ obs.builds[1].ok)

HistoryOnly(query) ==
    "Question: " \o query
    \o "\n\nNote: No report context is available. Please answer based on the chat history."

PlaceholderIndex ==
    [texts |-> <<"No report context available.">>,
     text_content |-> "No report context available."]

\* C1, as claimed: of two consecutive get_chat_response calls whose effective
\* context texts have the same length, the second makes no
\* initialize_vector_store call.
C1_SameLengthNeverRebuilds ==
    [][(/\ IsCall
        /\ ReachedCache(last_chat)
        /\ ReachedCache(last_chat')
        /\ Len(last_chat'.effective) = Len(last_chat.effective))
       => last_chat'.builds = <<>>]_vars

\* the call met a build failure: its first build failed
BuildFailed(obs) == obs.builds # <<>> /\ ~obs.builds[1].ok

\* C1, amended: of two consecutive get_chat_response calls whose effective context
\* texts have the same length, the second makes no initialize_vector_store call
\* and is answered from the cached index, left as it was, when the first reused
\* the cached index or built the index of its own text, even when the two texts
\* differ in content; and when the first call's build failed (the fallback
\* stored the placeholder index under key 0, or both builds failed and nothing
\* was stored) the second builds again, from its own text.
C1_SameLengthReusesIndex ==
    [][(/\ IsCall
        /\ ReachedCache(last_chat)
        /\ ReachedCache(last_chat')
        /\ Len(last_chat'.effective) = Len(last_chat.effective))
       => /\ LeftOwnIndex(last_chat) \/ BuildFailed(last_chat)
          /\ LeftOwnIndex(last_chat)
                => /\ last_chat'.builds = <<>>
                   /\ last_chat'.responded
                   /\ last_chat'.vectorstore = session_state.vector_store
                   /\ CacheOf(session_state') = CacheOf(session_state)
          /\ BuildFailed(last_chat)
                => /\ last_chat'.builds # <<>>
                   /\ last_chat'.builds[1].text = last_chat'.effective]_vars

\* a third call answered from the cached index of another text of the same
\* length, after a second call that had reused that index too
C1_Witness ==
    /\ calls = 3
    /\ reuses = 2
    /\ last_chat.responded
    /\ last_chat.builds = <<>>
    /\ last_chat.vectorstore.text_content # last_chat.effective
    /\ Len(last_chat.vectorstore.text_content) = Len(last_chat.effective)

\* C2: when the chat agent failed to initialise, get_chat_response returns
\* "Error: " followed by the stored error message; it reads no history, builds
\* and replaces no index and sends no completion request; and a later call
\* returns the same error without attempting the initialisation again.
C2_FailedAgentAnswersError ==
    [][(/\ IsCall
        /\ "chat_agent" \in DOMAIN session_state'
        /\ session_state'.chat_agent = "None")
       => /\ last_chat'.outcome = "return"
          /\ session_state'.chat_agent_error # PyNone
          /\ last_chat'.result = "Error: " \o session_state'.chat_agent_error[1]
          /\ ~last_chat'.scanned
          /\ last_chat'.builds = <<>>
          /\ ~last_chat'.responded
          /\ last_chat'.resp = NoResponse
          /\ CacheOf(session_state') = CacheOf(session_state)
          /\ "chat_agent" \in DOMAIN session_state
                => /\ session_state' = session_state
                   /\ last_chat'.inits = <<>>]_vars

\* a second call in a session whose chat agent failed to initialise
C2_Witness ==
    /\ calls = 2
    /\ "chat_agent" \in DOMAIN session_state
    /\ session_state.chat_agent = "None"
    /\ last_chat.inits = <<>>
    /\ StartsWith(last_chat.result, "Error: Missing dependencies: ")

\* C3: when the index build of a call fails, one more build is attempted, from
\* "No report context available."; if it succeeds the call answers from the
\* placeholder index, and if it fails the call returns "Error: Could not
\* initialize vector store ..." with no completion request sent and the cached
\* index and key as they were.
C3_BuildFailureFallsBack ==
    [][(/\ IsCall
        /\ last_chat'.builds # <<>>
        /\ ~last_chat'.builds[1].ok)
       => /\ Len(last_chat'.builds) = 2
          /\ last_chat'.builds[1].text = last_chat'.effective
          /\ last_chat'.builds[2].text = "No report context available."
          /\ last_chat'.outcome = "return"
          /\ IF last_chat'.builds[2].ok
             THEN /\ last_chat'.responded
                  /\ last_chat'.vectorstore = PlaceholderIndex
                  /\ session_state'.vector_store = PlaceholderIndex
                  /\ Len(last_chat'.resp.completions) = 1
                  /\ last_chat'.result = last_chat'.resp.ret
             ELSE /\ StartsWith(last_chat'.result,
                                "Error: Could not initialize vector store")
                  /\ ~last_chat'.responded
                  /\ last_chat'.resp = NoResponse
                  /\ CacheOf(session_state') = CacheOf(session_state)]_vars

\* both builds of a call failed while an index was cached
C3_Witness ==
    /\ Len(last_chat.builds) = 2
    /\ ~last_chat.builds[1].ok
    /\ ~last_chat.builds[2].ok
    /\ "vector_store" \in DOMAIN session_state
    /\ session_state.vector_store_key # Len(last_chat.effective)
    /\ StartsWith(last_chat.result, "Error: Could not initialize vector store")

\* C5: when the final completion call raises, get_response returns a string
\* with "Error generating response" and does not raise, and the call was
\* attempted once, whatever became of the reformulation and the retrieval.
C5_CompletionFailureReturnsError ==
    (/\ last_chat.responded
     /\ \E i \in DOMAIN last_chat.resp.completions : ~last_chat.resp.completions[i].ok)
    => /\ last_chat.outcome = "return"
       /\ Occurrences(last_chat.result, "Error generating response") # {}
       /\ Len(last_chat.resp.completions) = 1

\* the completion failed after the reformulation and the retrieval had failed too
C5_Witness ==
    /\ last_chat.responded
    /\ ~last_chat.resp.completions[1].ok
    /\ last_chat.resp.reformulations # <<>>
    /\ ~last_chat.resp.reformulations[1].ok
    /\ ~last_chat.resp.retrieval.ok
    /\ last_chat.result = "Error generating response: Connection error."

\* C6: _contextualize_query returns the query unchanged when the history is
\* empty, sending no request, and when the reformulation call fails; it returns
\* another string only after a successful call over a non-empty history.
C6_ContextualizeFallsBack ==
    last_chat.responded
    => LET resp == last_chat.resp
       IN  /\ last_chat.chat_history = <<>>
                => /\ resp.contextualized_query = last_chat.query
                   /\ resp.reformulations = <<>>
           /\ (\E i \in DOMAIN resp.reformulations : ~resp.reformulations[i].ok)
                => resp.contextualized_query = last_chat.query
           /\ resp.contextualized_query # last_chat.query
                => /\ last_chat.chat_history # <<>>
                   /\ Len(resp.reformulations) = 1
                   /\ resp.reformulations[1].ok

\* the reformulation call failed over a non-empty history
C6_Witness ==
    /\ last_chat.responded
    /\ last_chat.chat_history # <<>>
    /\ Len(last_chat.resp.reformulations) = 1
    /\ ~last_chat.resp.reformulations[1].ok
    /\ last_chat.resp.contextualized_query = last_chat.query

\* C7: in get_response, when retrieval raised or what it returned is empty or
\* is exactly "No report context available.", the user message is the
\* history-only phrasing of the original query, without a "Context:" section;
\* otherwise it is "Context:", the retrieved chunks and the original query.
C7_UserMessageFollowsContext ==
    last_chat.responded
    => LET retrieval == last_chat.resp.retrieval
           chunks == Join(retrieval.docs, "\n\n")
       IN  IF \/ ~retrieval.ok
              \/ chunks = ""
              \/ chunks = "No report context available."
           THEN last_chat.resp.user_message = HistoryOnly(last_chat.query)
           ELSE last_chat.resp.user_message
                = "Context:\n" \o chunks \o "\n\nQuestion: " \o last_chat.query

\* the retriever returned the placeholder chunk to a reformulated query
C7_Witness ==
    /\ last_chat.responded
    /\ last_chat.resp.retrieval.ok
    /\ last_chat.resp.retrieval.docs = <<"No report context available.">>
    /\ last_chat.resp.contextualized_query # last_chat.query
    /\ last_chat.resp.user_message = HistoryOnly(last_chat.query)

\* C8: init_analysis_state never raises, and after it returns chat_agent is
\* None exactly when chat_agent_error is a non-empty string.
C8_InitNeverRaises ==
    /\ last_init # "raise"
    /\ (last_init = "return" /\ "chat_agent" \in DOMAIN session_state)
          => (session_state.chat_agent = "None"
              <=> /\ session_state.chat_agent_error # PyNone
                  /\ session_state.chat_agent_error[1] # "")

\* no message of the history yields a context
NothingRecoverable(chat_history) ==
    \A i \in DOMAIN chat_history :
        /\ ~(/\ chat_history[i].role = "system"
             /\ Occurrences(chat_history[i].content, "__REPORT_TEXT__") # {})
        /\ ~(/\ chat_history[i].role = "assistant"
             /\ Len(chat_history[i].content) > 100)

\* C9: a call with no context text and none recoverable from the history
\* answers from the history alone: its user message is the history-only
\* phrasing and has no "Context:" section.
C9_NoContextAnswersFromHistory ==
    (/\ last_chat.responded
     /\ last_chat.context_text = ""
     /\ NothingRecoverable(last_chat.chat_history))
    => /\ last_chat.resp.user_message = HistoryOnly(last_chat.query)
       /\ Occurrences(last_chat.resp.user_message, "Context:") = {}

\* C10: the index handed to get_response was built from the call's own
\* effective context text, or from the placeholder after a failed build, and
\* the stored key is the length of the text the cached index was built from.
C10_IndexBuiltFromOwnText ==
    /\ last_chat.responded
          => \/ last_chat.vectorstore.text_content = last_chat.effective
             \/ /\ last_chat.builds # <<>>
                /\ ~last_chat.builds[1].ok
                /\ last_chat.vectorstore = PlaceholderIndex
    /\ "vector_store_key" \in DOMAIN session_state
          => session_state.vector_store_key = Len(session_state.vector_store.text_content)

\* the report text a message carries between the sentinel markers: the text from
\* the end of the first "__REPORT_TEXT__\n" to the start of the first
\* "\n__END_REPORT_TEXT__" of a system message, when that is not empty
CarriedReports(msg) ==
    LET starts == Occurrences(msg.content, "__REPORT_TEXT__\n")
        ends == Occurrences(msg.content, "\n__END_REPORT_TEXT__")
    IN  IF /\ msg.role = "system"
           /\ starts # {}
           /\ ends # {}
           /\ Least(ends) > Least(starts) + 16
        THEN {SubSeq(msg.content, Least(starts) + 17, Least(ends))}
        ELSE {}

PrefixOf(s, n) == IF Len(s) <= n THEN s ELSE SubSeq(s, 1, n)
SuffixOf(s, n) == IF Len(s) <= n THEN s ELSE SubSeq(s, Len(s) - n + 1, Len(s))

\* the recovery of C4, Cut(content, 5000) being the part kept of the assistant
\* message
RecoveryIs(Cut(_, _)) ==
    ret.done
    => LET history == args.chat_history
           carrying == {i \in DOMAIN history : CarriedReports(history[i]) # {}}
           long == {i \in DOMAIN history :
                       /\ history[i].role = "assistant"
                       /\ Len(history[i].content) > 100}
       IN  IF args.context_text # "" THEN ret.text = args.context_text
           ELSE IF carrying # {} THEN ret.text \in CarriedReports(history[Least(carrying)])
           ELSE IF long # {} THEN ret.text = Cut(history[Greatest(long)].content, 5000)
           ELSE ret.text = ""

\* C4, as claimed: a call with empty context text and a non-empty history
\* recovers the context from the system message carrying the sentinel markers,
\* and failing that from a suffix of at most 5000 characters of the most recent
\* assistant message longer than 100 characters; a non-empty context text is
\* kept and the history not consulted.
C4_RecoversSuffix == RecoveryIs(SuffixOf)

\* C4, amended: the same, with the first 5000 characters of that assistant
\* message (a prefix) instead of a suffix.
C4_RecoversPrefix == RecoveryIs(PrefixOf)

\* the context was cut from an assistant message of more than 5000 characters,
\* an older long assistant message and a system message without a report aside
C4_Witness ==
    /\ ret.done
    /\ args.context_text = ""
    /\ Len(args.chat_history) = 2
    /\ args.chat_history[2].role = "assistant"
    /\ Len(args.chat_history[2].content) > 5000
    /\ Len(ret.text) = 5000
    /\ StartsWith(ret.text, "Findings: ")
====
